---- MODULE Spec2Model ----
(***************************************************************************)
(* A model of yanked (src/yanked.py): the YankedManager record store and   *)
(* the install / upgrade / uninstall lifecycle.                            *)
(*                                                                         *)
(* The file system is the variable `files` (path -> content and mode), the *)
(* persisted record file .yankpacks is the variable `store`, the wall      *)
(* clock is `now`, and `last` holds what the most recent call was given    *)
(* and what it returned, raised and printed.  `saving` is where a process  *)
(* that saves the record file step by step, beside a reader, has got to.   *)
(*                                                                         *)
(* Every method of YankedManager is a pure operator from the state before  *)
(* the call and the call's inputs (arguments, what the network returned,   *)
(* which system call failed) to an outcome record; one action per method   *)
(* applies it.                                                             *)
(***************************************************************************)
EXTENDS Integers, Sequences, FiniteSets, TLC

VARIABLES files, store, now, last, saving

vars == <<files, store, now, last, saving>>

-----------------------------------------------------------------------------
(* Bounds *)

\* Downloaded contents are the prefixes of Text up to this length.
MaxLen == 2

\* The clock stops here.
MaxTime == 1

\* The number of calls SpecAll follows.
MaxCalls == 3

\* The longest name validate_app_name is given.
MaxName == 2

\* The most segments in the path of a URL.
MaxSegs == 3

-----------------------------------------------------------------------------
(* Values *)

\* Package names, as sequences of characters.
AppNames == {<<"a">>, <<"b", "_", "1">>}

\* The package whose lifecycle Spec follows through every fault.  The
\* actions take the set of names they draw from, so that a specification of
\* several packages can use AppNames.
OnePackage == {<<"a">>}

Text == <<"h", "i", "g", "h">>

\* Byte strings, as sequences of characters.
Contents == {SubSeq(Text, 1, k) : k \in 0..MaxLen}

\* What interactive_install passes on: the URL typed and the URL downloaded.
References ==
    {[source_url |-> "https://github.com/u/r", file_url |-> "https://raw.githubusercontent.com/u/r/main/f.sh"],
     [source_url |-> "https://raw.githubusercontent.com/u/r/main/g.sh", file_url |-> "https://raw.githubusercontent.com/u/r/main/g.sh"]}

\* The method argument of the five-argument call the tests make; NoMethod is
\* the four-argument call interactive_install makes.
NoMethod == "<none>"

Methods == {NoMethod, "scr", "inst"}

\* Permission bits: 0o400, 0o200, 0o100, 0o040, 0o004.
S_IEXEC == "u+x"

\* 0o666 & ~umask, for umask 0o022.
CreateMode == {"u+r", "u+w", "g+r", "o+r"}

\* What is typed at a (y/N) prompt.
Answers == {"y", "Yes", "n", ""}

-----------------------------------------------------------------------------
(* Maps (Python dicts) *)

EmptyMap == <<>>

Put(m, k, v) == [x \in (DOMAIN m) \cup {k} |-> IF x = k THEN v ELSE m[x]]

Del(m, k) == [x \in (DOMAIN m) \ {k} |-> m[x]]

Has(m, k) == k \in DOMAIN m

-----------------------------------------------------------------------------
(* YankedManager.__init__ *)

install_dir == <<"~/.local/bin">>

\* install_dir / app_name
PathJoin(dir, name) == dir \o <<"/">> \o name

-----------------------------------------------------------------------------
(* validate_app_name: bool(re.match(r'^[a-zA-Z0-9_-]+$', name)) *)

Newline == "\n"

\* The characters names are typed from: one of each kind the pattern tells
\* apart (a lower-case and an upper-case letter, a digit, the hyphen, the
\* underscore), and a space, a newline, a punctuation mark and a letter that
\* is not ASCII.
Chars == {"a", "Z", "1", "-", "_", " ", Newline, "@", "é"}

\* [a-zA-Z0-9_-]
InClass(c) == c \in {"a", "Z", "1", "-", "_"}

\* $ at position k (k characters matched): the end of the string, or just
\* before a newline that is its last character.
AtDollar(name, k) == k = Len(name) \/ (k = Len(name) - 1 /\ name[Len(name)] = Newline)

\* re.match: from the start, one or more characters of the class, then $.
validate_app_name(name) ==
    \E k \in 1..Len(name) :
        /\ \A i \in 1..k : InClass(name[i])
        /\ AtDollar(name, k)

\* The strings of at most n characters.
Strings(n) == UNION {[1..k -> Chars] : k \in 0..n}

-----------------------------------------------------------------------------
(* parse_github_url and get_raw_url.  A URL is a sequence of pieces: the   *)
(* scheme with its "://", a host, "/", a space, and the pieces of the      *)
(* path's segments; ".git" is a piece of its own wherever it occurs, as in *)
(* u.github.io = "u" ".git" "hub.io".                                      *)

RawHost == "raw.githubusercontent.com"

Schemes == {"https://", "http://", "ftp://"}

Hosts == {"github.com", RawHost, "example.com"}

\* The segments of a path: owner or repository names, and the empty one
\* (two slashes in a row).
Segments == {<<"u">>, <<"r", ".git">>, <<"u", ".git", "hub.io">>, <<>>}

\* "/" before each segment.
RECURSIVE PathOf(_)
PathOf(segs) == IF segs = <<>> THEN <<>> ELSE <<"/">> \o Head(segs) \o PathOf(Tail(segs))

\* What is typed or passed as a URL: a scheme, a host and up to MaxSegs
\* segments, with or without a slash at the end, and with or without a
\* space before and after.
Urls ==
    {lead \o <<scheme, host>> \o PathOf(segs) \o slash \o trail :
        lead \in {<<>>, <<" ">>}, scheme \in Schemes, host \in Hosts,
        segs \in UNION {[1..k -> Segments] : k \in 0..MaxSegs},
        slash \in {<<>>, <<"/">>}, trail \in {<<>>, <<" ">>}}

\* The relative paths of files in a repository.
FilePaths == {<<"f.sh">>, <<"p", "/", "f.sh">>}

\* str.strip()
RECURSIVE Strip(_)
Strip(s) ==
    IF s # <<>> /\ Head(s) \in {" ", Newline} THEN Strip(Tail(s))
    ELSE IF s # <<>> /\ s[Len(s)] \in {" ", Newline} THEN Strip(SubSeq(s, 1, Len(s) - 1))
    ELSE s

\* 'piece' in url
Contains(url, piece) == \E i \in DOMAIN url : url[i] = piece

\* [^/]+ from position i: the position after the last piece it takes.
RECURSIVE RunEnd(_, _)
RunEnd(url, i) == IF i > Len(url) \/ url[i] = "/" THEN i ELSE RunEnd(url, i + 1)

\* re.match(r'https?://github\.com/([^/]+)/([^/]+)/?.*', url): the two
\* groups, or no match.
RepoMatch(url) ==
    LET j == RunEnd(url, 4)
        k == RunEnd(url, j + 1)
    IN  IF /\ Len(url) >= 3
           /\ url[1] \in {"https://", "http://"}
           /\ url[2] = "github.com"
           /\ url[3] = "/"
           /\ j > 4
           /\ j <= Len(url)
           /\ k > j + 1
        THEN [matched |-> TRUE, user |-> SubSeq(url, 4, j - 1), repo |-> SubSeq(url, j + 1, k - 1)]
        ELSE [matched |-> FALSE, user |-> <<>>, repo |-> <<>>]

\* What the two functions return: source_url and raw_url (None: <<>> with
\* needs_path), or the exception raised.
Resolved(source_url, raw_url, needs_path, raised) ==
    [source_url |-> source_url, raw_url |-> raw_url, needs_path |-> needs_path, raised |-> raised]

\* A faulty variant: the URL is taken as typed, spaces and all.
ParseUnstripped(typed) ==
    IF Contains(typed, RawHost) THEN Resolved(typed, typed, FALSE, "none")
    ELSE IF Contains(typed, "github.com") /\ RepoMatch(typed).matched THEN Resolved(typed, <<>>, TRUE, "none")
    ELSE Resolved(<<>>, <<>>, FALSE, "ValueError")

\* A faulty variant: any URL with github.com in it passes for a repository.
ParseAnyGithub(typed) ==
    LET url == Strip(typed)
    IN  IF Contains(url, RawHost) THEN Resolved(url, url, FALSE, "none")
        ELSE IF Contains(url, "github.com") THEN Resolved(url, <<>>, TRUE, "none")
        ELSE Resolved(<<>>, <<>>, FALSE, "ValueError")

\* Lines 101-117.
parse_github_url(typed) ==
    LET url == Strip(typed)
    IN  IF Contains(url, RawHost) THEN Resolved(url, url, FALSE, "none")
        ELSE IF Contains(url, "github.com") /\ RepoMatch(url).matched THEN Resolved(url, <<>>, TRUE, "none")
        ELSE Resolved(<<>>, <<>>, FALSE, "ValueError")

\* repo.replace('.git', '')
RemoveGit(repo) == SelectSeq(repo, LAMBDA piece : piece # ".git")

\* Lines 119-128.
get_raw_url(github_url, file_path) ==
    LET match == RepoMatch(github_url)
    IN  IF ~match.matched THEN Resolved(<<>>, <<>>, FALSE, "ValueError")
        ELSE Resolved(github_url,
                      <<"https://", RawHost, "/">> \o match.user \o <<"/">> \o RemoveGit(match.repo)
                          \o <<"/", "main", "/">> \o file_path,
                      FALSE, "none")

-----------------------------------------------------------------------------
(* calculate_hash: hashlib.sha256(content).hexdigest() *)

calculate_hash(content) ==
    CASE content = <<>> -> "e3b0c44298fc1c149afbf4c8996fb92427ae41e4649b934ca495991b7852b855"
      [] content = <<"h">> -> "aaa9402664f1a41f40ebbc52c9993eb66aeb366602958fdfaa283b71e64db123"
      [] content = <<"h", "i">> -> "8f434346648f6b96df89dda901c5176b10a6d83961dd3c1ac88b59b2dc327aa4"
      [] content = <<"h", "i", "g">> -> "5c5355e455088ece04b8c7bf87c5a5b4b204727064785fda9df0d416eeeccd44"
      [] content = <<"h", "i", "g", "h">> -> "6ef7c9b15ecdd69083724b84cfdc2100351963488b51b4ea2fcbddf493fbec94"

-----------------------------------------------------------------------------
(* str.lower on the answers *)

Lower(s) == IF s = "Yes" THEN "yes" ELSE IF s = "Exit" THEN "exit" ELSE s

Confirmed(answer) == Lower(answer) \in {"y", "yes"}

-----------------------------------------------------------------------------
(* Faults.  A call meets at most one failing system call (the first one    *)
(* ends it, or is the last thing it does): `at` names it, and `part` is    *)
(* what a write that failed part-way left in the file.                     *)

NoFault == [at |-> "none", part |-> <<>>]

ProperPrefixes(content) == {SubSeq(content, 1, k) : k \in 0..(Len(content) - 1)}

\* Writing the executable: open(), write() or chmod() raises OSError.
WriteFaults(content) ==
    {[at |-> a, part |-> <<>>] : a \in {"open", "chmod"}}
        \cup {[at |-> "write", part |-> p] : p \in ProperPrefixes(content)}

\* Saving the record file: open() or the write raises IOError.
SaveFaults == {[at |-> a, part |-> <<>>] : a \in {"save_open", "save_write"}}

\* app_path.unlink() raises OSError.
UnlinkFault == [at |-> "unlink", part |-> <<>>]

-----------------------------------------------------------------------------
(* sorted(), on str *)

\* ord() of the characters of the names.
Ord(c) ==
    CASE c = "-" -> 45 [] c = "1" -> 49 [] c = "A" -> 65 [] c = "Z" -> 90
      [] c = "_" -> 95 [] c = "a" -> 97 [] c = "b" -> 98

\* s < t on str: by the first character that differs, a proper prefix first.
RECURSIVE StrLess(_, _)
StrLess(s, t) ==
    IF t = <<>> THEN FALSE
    ELSE IF s = <<>> THEN TRUE
    ELSE IF Head(s) = Head(t) THEN StrLess(Tail(s), Tail(t))
    ELSE Ord(Head(s)) < Ord(Head(t))

\* sorted(keys)
RECURSIVE Sorted(_)
Sorted(keys) ==
    IF keys = {} THEN <<>>
    ELSE LET least == CHOOSE k \in keys : \A other \in keys \ {k} : StrLess(k, other)
         IN  <<least>> \o Sorted(keys \ {least})

-----------------------------------------------------------------------------
(* json.dump(records, f, indent=2, sort_keys=True) and json.load(f).  The  *)
(* text of a JSON object is the sequence of its members, <<key, value>>,   *)
(* in the order written.                                                   *)

\* The keys of a record, as sort_keys orders them.
FieldOrder ==
    <<"file_hash", "file_path", "file_url", "install_date", "last_update", "method", "source_url">>

\* A faulty variant: the members written after install_date are lost.
DumpObjectCutShort(info) ==
    LET keys == SelectSeq(SubSeq(FieldOrder, 1, 4), LAMBDA k : k \in DOMAIN info)
    IN  [i \in 1..Len(keys) |-> <<keys[i], info[keys[i]]>>]

\* One record: its members, sorted by key.  The values are strings, which
\* JSON text holds as they are.
DumpObject(info) ==
    LET keys == SelectSeq(FieldOrder, LAMBDA k : k \in DOMAIN info)
    IN  [i \in 1..Len(keys) |-> <<keys[i], info[keys[i]]>>]

json_dump(records) ==
    LET names == Sorted(DOMAIN records)
    IN  [i \in 1..Len(names) |-> <<names[i], DumpObject(records[names[i]])>>]

\* A JSON object read back as a dict, from its i-th member on: of two
\* members with the same key the later one stays.
RECURSIVE LoadMembers(_, _)
LoadMembers(members, i) ==
    IF i > Len(members) THEN EmptyMap
    ELSE LoadMembers(members, i + 1) @@ (members[i][1] :> members[i][2])

LoadObject(members) == LoadMembers(members, 1)

json_load(text) ==
    LET outer == LoadObject(text)
    IN  [name \in DOMAIN outer |-> LoadObject(outer[name])]

-----------------------------------------------------------------------------
(* The record file .yankpacks.  kind is "absent" (no file), "ok" (the text *)
(* of a whole JSON object), "truncated" (a write that stopped part-way:    *)
(* what is left does not parse), "list" (the text of a JSON array),        *)
(* "undecodable" (bytes that are not UTF-8) or "unreadable" (open() fails: *)
(* no permission, a directory).                                            *)

AbsentStore == [kind |-> "absent", text |-> <<>>]

TruncatedStore == [kind |-> "truncated", text |-> <<>>]

OkStore(records) == [kind |-> "ok", text |-> json_dump(records)]

ListStore(items) == [kind |-> "list", text |-> items]

UndecodableStore == [kind |-> "undecodable", text |-> <<>>]

UnreadableStore == [kind |-> "unreadable", text |-> <<>>]

\* load_records, lines 63-72: {} when the file is missing; {} and an error
\* line for a JSONDecodeError or an IOError.  json.load returns whatever
\* value the text holds, and a UnicodeDecodeError (a ValueError) is not
\* among the exceptions caught.  type is the type of the value returned.
load_records(st) ==
    CASE st.kind = "absent" -> [records |-> EmptyMap, type |-> "dict", raised |-> "none", msgs |-> <<>>]
      [] st.kind = "ok" -> [records |-> json_load(st.text), type |-> "dict", raised |-> "none", msgs |-> <<>>]
      [] st.kind = "list" -> [records |-> st.text, type |-> "list", raised |-> "none", msgs |-> <<>>]
      [] st.kind = "undecodable" ->
            [records |-> EmptyMap, type |-> "NoneType", raised |-> "UnicodeDecodeError", msgs |-> <<>>]
      [] st.kind \in {"truncated", "unreadable"} ->
            [records |-> EmptyMap, type |-> "dict", raised |-> "none",
             msgs |-> <<"error: Error reading records">>]

\* save_records: open(records_file, 'w') truncates the file, json.dump then
\* writes it; an IOError is caught and printed, never raised.
save_records(st, records, f) ==
    CASE f.at = "save_open" ->
            [store |-> st, caught |-> "IOError: save_open", msgs |-> <<"error: Error saving records">>]
      [] f.at = "save_write" ->
            [store |-> TruncatedStore, caught |-> "IOError: save_write", msgs |-> <<"error: Error saving records">>]
      [] OTHER -> [store |-> OkStore(records), caught |-> "none", msgs |-> <<>>]

-----------------------------------------------------------------------------
(* Files *)

Exists(fs, path) == path \in DOMAIN fs

\* open(path, 'wb'): creates the file with the umask's mode, or empties it
\* and keeps its mode.
OpenWb(fs, path) ==
    Put(fs, path, [content |-> <<>>, mode |-> IF Exists(fs, path) THEN fs[path].mode ELSE CreateMode])

WriteBytes(fs, path, bytes) == Put(fs, path, [content |-> bytes, mode |-> fs[path].mode])

\* app_path.chmod(app_path.stat().st_mode | stat.S_IEXEC)
Chmod(fs, path) == Put(fs, path, [content |-> fs[path].content, mode |-> fs[path].mode \cup {S_IEXEC}])

\* with open(app_path, 'wb') as f: f.write(content); then chmod.  The same
\* lines are in install_app and in upgrade_app (364-368).
WriteExecutable(fs, path, content, f) ==
    CASE f.at = "open" -> [files |-> fs, raised |-> "OSError: open"]
      [] f.at = "write" -> [files |-> WriteBytes(OpenWb(fs, path), path, f.part), raised |-> "OSError: write"]
      [] f.at = "chmod" -> [files |-> WriteBytes(OpenWb(fs, path), path, content), raised |-> "OSError: chmod"]
      [] OTHER -> [files |-> Chmod(WriteBytes(OpenWb(fs, path), path, content), path), raised |-> "none"]

-----------------------------------------------------------------------------
(* Outcomes.  What a call leaves behind: the files, the record file, what  *)
(* it returned, the exception it raised to its caller, the exception it    *)
(* caught on the way (if any) and the lines it printed through             *)
(* print_status, print_success, print_warning and print_error.             *)

Outcome(fs, st, ret, raised, caught, msgs) ==
    [files |-> fs, store |-> st, ret |-> ret, raised |-> raised, caught |-> caught, msgs |-> msgs]

-----------------------------------------------------------------------------
(* install_app *)

\* The record install_app writes.
NewRecord(source_url, file_url, t, app_path, content) ==
    [source_url |-> source_url,
     file_url |-> file_url,
     install_date |-> t,
     file_path |-> app_path,
     file_hash |-> calculate_hash(content)]

\* A faulty variant: the record is saved before the file is written.
InstallAppSavingFirst(fs, st, t, app_name, source_url, file_url, content, method, f) ==
    LET app_path == PathJoin(install_dir, app_name)
        wr == WriteExecutable(fs, app_path, content, f)
        ld == load_records(st)
        records == Put(ld.records, app_name, NewRecord(source_url, file_url, t, app_path, content))
        s == save_records(st, records, f)
    IN  IF wr.raised # "none"
        THEN Outcome(wr.files, s.store, "None", wr.raised, "none", <<>>)
        ELSE Outcome(wr.files, s.store, "None", "none", s.caught,
                     ld.msgs \o s.msgs \o <<"success: installed successfully">>)

\* fs, st, t: the files, the record file and the clock before the call.
install_app(fs, st, t, app_name, source_url, file_url, content, method, f) ==
    IF method # NoMethod
    THEN \* install_app() takes 5 positional arguments but 6 were given
         Outcome(fs, st, "None", "TypeError", "none", <<>>)
    ELSE LET app_path == PathJoin(install_dir, app_name)
             wr == WriteExecutable(fs, app_path, content, f)
             ld == load_records(st)
             records == Put(ld.records, app_name, NewRecord(source_url, file_url, t, app_path, content))
             s == save_records(st, records, f)
         IN  IF wr.raised # "none"
             THEN Outcome(wr.files, st, "None", wr.raised, "none", <<>>)
             ELSE Outcome(wr.files, s.store, "None", "none", s.caught,
                          ld.msgs \o s.msgs \o <<"success: installed successfully">>)

-----------------------------------------------------------------------------
(* download_file: the bytes at the URL, or an Exception *)

Fetches == {[ok |-> TRUE, body |-> c] : c \in Contents} \cup {[ok |-> FALSE, body |-> <<>>]}

-----------------------------------------------------------------------------
(* interactive_install.  What the user types is held prompt by prompt:     *)
(* urls, paths and names are the lines typed at "Enter URL", "Enter the    *)
(* file path" and "Enter the name", in order, and overwrite and proceed    *)
(* the answers to the two (y/N) prompts.  When the lines of a prompt run   *)
(* out, input() raises EOFError.                                           *)

\* check_exit: user_input.lower() in ['quit', 'exit'], then sys.exit(0).
check_exit(value) == Len(value) = 1 /\ Lower(value[1]) \in {"quit", "exit"}

\* read_with_exit: the first line that is not blank, stripped; rest is what
\* is typed after it.
RECURSIVE read_with_exit(_)
read_with_exit(entries) ==
    IF entries = <<>>
    THEN [value |-> <<>>, rest |-> <<>>, raised |-> "EOFError", msgs |-> <<>>]
    ELSE LET value == Strip(Head(entries))
         IN  IF check_exit(value)
             THEN [value |-> value, rest |-> Tail(entries), raised |-> "SystemExit",
                   msgs |-> <<"warning: Installation cancelled">>]
             ELSE IF value # <<>>
             THEN [value |-> value, rest |-> Tail(entries), raised |-> "none", msgs |-> <<>>]
             ELSE LET again == read_with_exit(Tail(entries))
                  IN  [again EXCEPT !.msgs = <<"error: Please enter a value">> \o @]

\* A faulty variant: the name is taken as typed, whatever it is.
ReadAppNameUnchecked(entries) == read_with_exit(entries)

\* Lines 216-220: the loop that ends with a name validate_app_name accepts.
RECURSIVE ReadAppName(_)
ReadAppName(entries) ==
    LET r == read_with_exit(entries)
    IN  IF r.raised # "none" \/ validate_app_name(r.value) THEN r
        ELSE LET again == ReadAppName(r.rest)
             IN  [again EXCEPT !.msgs = r.msgs \o <<"error: App name must contain only">> \o @]

\* What the prompts of interactive_install end in: proceeds is true when
\* both confirmations are passed and the download is next, asked holds the
\* prompts shown after "Enter URL".
Dialogue(proceeds, app_name, source_url, raw_url, asked, raised, msgs) ==
    [proceeds |-> proceeds, app_name |-> app_name, source_url |-> source_url, raw_url |-> raw_url,
     asked |-> asked, raised |-> raised, msgs |-> msgs]

Stopped(asked, raised, msgs) == Dialogue(FALSE, <<>>, <<>>, <<>>, asked, raised, msgs)

\* A faulty variant: the download starts whatever is answered to "Proceed".
ConfirmProceedingAnyway(st, inp, app_name, source_url, raw_url, asked, msgs) ==
    LET ld == load_records(st)
        installed == Has(ld.records, app_name)
    IN  IF installed /\ ~Confirmed(inp.overwrite)
        THEN Stopped(asked \cup {"overwrite"}, "none",
                     msgs \o ld.msgs \o <<"warning: Installation cancelled">>)
        ELSE Dialogue(TRUE, app_name, source_url, raw_url,
                      asked \cup (IF installed THEN {"overwrite", "proceed"} ELSE {"proceed"}),
                      "none", msgs \o ld.msgs)

\* Lines 222-242: the two confirmations.
Confirm(st, inp, app_name, source_url, raw_url, asked, msgs) ==
    LET ld == load_records(st)
        installed == Has(ld.records, app_name)
        both == asked \cup (IF installed THEN {"overwrite", "proceed"} ELSE {"proceed"})
    IN  IF installed /\ ~Confirmed(inp.overwrite)
        THEN Stopped(asked \cup {"overwrite"}, "none",
                     msgs \o ld.msgs \o <<"warning: Installation cancelled">>)
        ELSE IF ~Confirmed(inp.proceed)
        THEN Stopped(both, "none", msgs \o ld.msgs \o <<"warning: Installation cancelled">>)
        ELSE Dialogue(TRUE, app_name, source_url, raw_url, both, "none", msgs \o ld.msgs)

\* Lines 215-242: the name, then the confirmations.
AskName(st, inp, source_url, raw_url, asked, msgs) ==
    LET n == ReadAppName(inp.names)
    IN  IF n.raised # "none" THEN Stopped(asked \cup {"name"}, n.raised, msgs \o n.msgs)
        ELSE Confirm(st, inp, n.value, source_url, raw_url, asked \cup {"name"}, msgs \o n.msgs)

\* Lines 195-242.
Prompts(st, inp) ==
    LET u == read_with_exit(inp.urls)
        parsed == parse_github_url(u.value)
        p == read_with_exit(inp.paths)
        built == get_raw_url(u.value, p.value)
    IN  IF u.raised # "none" THEN Stopped({}, u.raised, u.msgs)
        ELSE IF parsed.raised # "none" THEN Stopped({}, "none", u.msgs \o <<"error: Invalid GitHub URL">>)
        ELSE IF ~parsed.needs_path THEN AskName(st, inp, u.value, parsed.raw_url, {}, u.msgs)
        ELSE IF p.raised # "none" THEN Stopped({"path"}, p.raised, u.msgs \o p.msgs)
        ELSE IF built.raised # "none"
        THEN Stopped({"path"}, "none", u.msgs \o p.msgs \o <<"error: Invalid GitHub URL">>)
        ELSE AskName(st, inp, u.value, built.raw_url, {"path"}, u.msgs \o p.msgs)

\* Lines 244-249: download_file and install_app, inside the try that
\* catches every Exception.
DownloadAndInstall(fs, st, t, d, fetched, f) ==
    LET downloading == d.msgs \o <<"status: Downloading">>
        out == install_app(fs, st, t, d.app_name, d.source_url, d.raw_url, fetched.body, NoMethod, f)
    IN  IF ~fetched.ok
        THEN Outcome(fs, st, "None", "none", "Download failed",
                     downloading \o <<"error: Installation failed: Download failed">>)
        ELSE IF out.raised # "none"
        THEN Outcome(out.files, out.store, "None", "none", out.raised,
                     downloading \o out.msgs \o <<"error: Installation failed: " \o out.raised>>)
        ELSE Outcome(out.files, out.store, "None", "none", out.caught, downloading \o out.msgs)

interactive_install(fs, st, t, inp, fetched, f) ==
    LET d == Prompts(st, inp)
    IN  IF d.proceeds THEN DownloadAndInstall(fs, st, t, d, fetched, f)
        ELSE Outcome(fs, st, "None", d.raised, "none", d.msgs)

-----------------------------------------------------------------------------
(* upgrade_app *)

\* latest_hash == info['file_hash']
\* A faulty variant: the comparison never finds the package up to date.
UpToDateNever(latest_hash, info) == FALSE

UpToDate(latest_hash, info) == latest_hash = info.file_hash

\* A faulty variant: the upgrade stamps install_date as an install does.
UpgradedRecordRestamped(info, latest_hash, t) ==
    Put(Put(Put(info, "file_hash", latest_hash), "last_update", t), "install_date", t)

\* records[app_name]['file_hash'] = latest_hash; ['last_update'] = now
UpgradedRecord(info, latest_hash, t) == Put(Put(info, "file_hash", latest_hash), "last_update", t)

\* A faulty variant: the record is saved before the file is written.
InstallUpdateSavingFirst(fs, st, t, records, app_name, latest_content, latest_hash, f, msgs) ==
    LET info == records[app_name]
        wr == WriteExecutable(fs, info.file_path, latest_content, f)
        s == save_records(st, Put(records, app_name, UpgradedRecord(info, latest_hash, t)), f)
    IN  IF wr.raised # "none"
        THEN Outcome(wr.files, s.store, "False", "none", wr.raised,
                     msgs \o <<"error: Failed to upgrade: " \o wr.raised>>)
        ELSE Outcome(wr.files, s.store, "True", "none", s.caught,
                     msgs \o s.msgs \o <<"success: updated successfully">>)

\* Lines 360-376, inside the try: write the new file, then the record.
InstallUpdate(fs, st, t, records, app_name, latest_content, latest_hash, f, msgs) ==
    LET info == records[app_name]
        wr == WriteExecutable(fs, info.file_path, latest_content, f)
        s == save_records(st, Put(records, app_name, UpgradedRecord(info, latest_hash, t)), f)
    IN  IF wr.raised # "none"
        THEN Outcome(wr.files, st, "False", "none", wr.raised,
                     msgs \o <<"error: Failed to upgrade: " \o wr.raised>>)
        ELSE Outcome(wr.files, s.store, "True", "none", s.caught,
                     msgs \o s.msgs \o <<"success: updated successfully">>)

upgrade_app(fs, st, t, app_name, fetched, f) ==
    LET ld == load_records(st)
        records == ld.records
        checking == ld.msgs \o <<"status: Checking for updates", "status: Downloading">>
        available == checking \o <<"status: Update available">>
    IN  IF ~Has(records, app_name)
        THEN Outcome(fs, st, "False", "none", "none", ld.msgs \o <<"error: not installed">>)
        ELSE LET info == records[app_name]
                 latest_hash == calculate_hash(fetched.body)
             IN  IF ~fetched.ok
                 THEN Outcome(fs, st, "False", "none", "Download failed",
                              checking \o <<"error: Failed to upgrade: Download failed">>)
                 ELSE IF UpToDate(latest_hash, info)
                 THEN Outcome(fs, st, "False", "none", "none", checking \o <<"success: already up to date">>)
                 ELSE IF ~Has(info, "file_path")
                 THEN \* KeyError: 'file_path', caught by except Exception
                      Outcome(fs, st, "False", "none", "KeyError",
                              available \o <<"error: Failed to upgrade: KeyError">>)
                 ELSE InstallUpdate(fs, st, t, records, app_name, fetched.body, latest_hash, f, available)

-----------------------------------------------------------------------------
(* uninstall_app *)

\* A faulty variant: a failed unlink is reported and the record deleted all
\* the same.
RemoveAppDespiteFailure(fs, st, records, app_name, app_path, f, msgs) ==
    LET s == save_records(st, Del(records, app_name), f)
    IN  IF Exists(fs, app_path) /\ f.at = "unlink"
        THEN Outcome(fs, s.store, "None", "none", "OSError: unlink", msgs \o <<"error: Failed to remove file">>)
        ELSE Outcome(Del(fs, app_path), s.store, "None", "none", s.caught,
                     msgs \o (IF Exists(fs, app_path) THEN <<"success: Removed">> ELSE <<"warning: already missing">>)
                          \o s.msgs \o <<"success: uninstalled successfully">>)

\* A faulty variant: a missing file is an error, and the record stays.
RemoveAppMissingIsError(fs, st, records, app_name, app_path, f, msgs) ==
    LET s == save_records(st, Del(records, app_name), f)
    IN  IF ~Exists(fs, app_path)
        THEN Outcome(fs, st, "None", "none", "none", msgs \o <<"error: Failed to remove file">>)
        ELSE IF f.at = "unlink"
        THEN Outcome(fs, st, "None", "none", "OSError: unlink", msgs \o <<"error: Failed to remove file">>)
        ELSE Outcome(Del(fs, app_path), s.store, "None", "none", s.caught,
                     msgs \o <<"success: Removed">> \o s.msgs \o <<"success: uninstalled successfully">>)

\* Lines 317-332: remove the file if it exists, then the record.
RemoveApp(fs, st, records, app_name, app_path, f, msgs) ==
    LET s == save_records(st, Del(records, app_name), f)
    IN  IF Exists(fs, app_path) /\ f.at = "unlink"
        THEN Outcome(fs, st, "None", "none", "OSError: unlink", msgs \o <<"error: Failed to remove file">>)
        ELSE Outcome(Del(fs, app_path), s.store, "None", "none", s.caught,
                     msgs \o (IF Exists(fs, app_path) THEN <<"success: Removed">> ELSE <<"warning: already missing">>)
                          \o s.msgs \o <<"success: uninstalled successfully">>)

\* A faulty variant: the confirmation is asked for before the name is
\* looked up.
UninstallAppAskingFirst(fs, st, app_name, answer, f) ==
    LET ld == load_records(st)
        records == ld.records
    IN  IF ~Confirmed(answer)
        THEN Outcome(fs, st, "None", "none", "none", ld.msgs \o <<"warning: Uninstallation cancelled">>)
        ELSE IF ~Has(records, app_name)
        THEN Outcome(fs, st, "None", "none", "none", ld.msgs \o <<"error: not installed">>)
        ELSE IF ~Has(records[app_name], "file_path")
        THEN Outcome(fs, st, "None", "KeyError", "none", ld.msgs)
        ELSE RemoveApp(fs, st, records, app_name, records[app_name].file_path, f, ld.msgs)

uninstall_app(fs, st, app_name, answer, f) ==
    LET ld == load_records(st)
        records == ld.records
    IN  IF ~Has(records, app_name)
        THEN Outcome(fs, st, "None", "none", "none", ld.msgs \o <<"error: not installed">>)
        ELSE LET info == records[app_name]
             IN  IF ~Has(info, "file_path")
                 THEN \* KeyError: 'file_path', not caught in uninstall_app
                      Outcome(fs, st, "None", "KeyError", "none", ld.msgs)
                 ELSE IF ~Confirmed(answer)
                 THEN Outcome(fs, st, "None", "none", "none", ld.msgs \o <<"warning: Uninstallation cancelled">>)
                 ELSE RemoveApp(fs, st, records, app_name, info.file_path, f, ld.msgs)

-----------------------------------------------------------------------------
(* upgrade_all *)

\* A faulty variant: the loop ends at the first upgrade that failed.
StopsLoopOnFailure(out) == out.raised # "none" \/ out.caught # "none"

\* What ends the for loop early: an exception leaving upgrade_app.
StopsLoop(out) == out.raised # "none"

\* One call of upgrade_app made by the loop, as the summary sees it.
Attempt(app_name, out) ==
    [app_name |-> app_name, ret |-> out.ret, caught |-> out.caught,
     up_to_date |-> \E i \in DOMAIN out.msgs : out.msgs[i] = "success: already up to date"]

\* Lines 397-406, from the i-th name of the order on.  inputs[app_name] is
\* what that name's download returns and the system call that fails in its
\* upgrade; acc carries the files, the record file, the two counters and the
\* calls made so far.
RECURSIVE UpgradeEach(_, _, _, _, _)
UpgradeEach(order, i, t, inputs, acc) ==
    IF i > Len(order) THEN acc
    ELSE LET app_name == order[i]
             out == upgrade_app(acc.files, acc.store, t, app_name, inputs[app_name].fetched, inputs[app_name].f)
             counted ==
                 [files |-> out.files,
                  store |-> out.store,
                  raised |-> out.raised,
                  attempts |-> Append(acc.attempts, Attempt(app_name, out)),
                  updated_count |-> acc.updated_count + (IF out.ret = "True" THEN 1 ELSE 0),
                  failed_count |->
                      acc.failed_count
                          + (IF out.ret = "True" THEN 0
                             ELSE IF out.ret = "False" /\ Has(load_records(out.store).records, app_name) THEN 0
                             ELSE 1)]
         IN  IF StopsLoop(out)
             THEN [acc EXCEPT !.files = out.files, !.store = out.store, !.raised = out.raised,
                              !.attempts = Append(acc.attempts, Attempt(app_name, out))]
             ELSE UpgradeEach(order, i + 1, t, inputs, counted)

\* Lines 382-418.  The summary is None when nothing is installed (line 386)
\* or the loop was left by an exception.
upgrade_all(fs, st, t, inputs) ==
    LET records == load_records(st).records
        start == [files |-> fs, store |-> st, raised |-> "none", attempts |-> <<>>,
                  updated_count |-> 0, failed_count |-> 0]
        end == UpgradeEach(Sorted(DOMAIN records), 1, t, inputs, start)
    IN  IF records = EmptyMap
        THEN [files |-> fs, store |-> st, raised |-> "none", attempts |-> <<>>, summary |-> "None"]
        ELSE [files |-> end.files, store |-> end.store, raised |-> end.raised, attempts |-> end.attempts,
              summary |-> IF end.raised # "none" THEN "None"
                          ELSE [updated |-> end.updated_count,
                                up_to_date |-> Cardinality(DOMAIN records) - end.updated_count
                                                   - end.failed_count,
                                failed |-> end.failed_count]]

-----------------------------------------------------------------------------
(* show_info *)

\* Lines 271-295.  The lines are printed in order, so that the KeyError of
\* info['file_path'] (line 287) comes after the three lines before it.
show_info(fs, st, app_name) ==
    LET ld == load_records(st)
        records == ld.records
    IN  IF ~Has(records, app_name)
        THEN Outcome(fs, st, "None", "none", "none", ld.msgs \o <<"error: not installed">>)
        ELSE LET info == records[app_name]
                 head == ld.msgs \o <<"print: Package Info", "print: Source URL", "print: Download URL">>
             IN  IF ~Has(info, "file_path")
                 THEN Outcome(fs, st, "None", "KeyError", "none", head)
                 ELSE Outcome(fs, st, "None", "none", "none",
                              head \o <<"print: Install Path", "print: Install Date", "print: File Hash">>
                                   \o (IF Exists(fs, info.file_path)
                                       THEN <<"print: Status: Installed">>
                                       ELSE <<"print: Status: Missing (file not found)">>))

-----------------------------------------------------------------------------
(* The records the tests save directly, through save_records: a record of  *)
(* either method, "scr" with a file_path and "inst" without one.           *)

FixtureRecord(app_name, method, ref, content) ==
    LET common == [method |-> method, source_url |-> ref.source_url, file_url |-> ref.file_url,
                   install_date |-> 0, file_hash |-> calculate_hash(content)]
    IN  IF method = "scr" THEN Put(common, "file_path", PathJoin(install_dir, app_name)) ELSE common

Fixtures(names) ==
    {EmptyMap} \cup
    {Put(EmptyMap, n, FixtureRecord(n, m, ref, c)) :
        n \in names, m \in {"scr", "inst"}, ref \in References, c \in Contents}

-----------------------------------------------------------------------------
\* Records of either method, before and after an upgrade stamped them.
RecordShapes(app_name) ==
    LET ref == CHOOSE r \in References : r.source_url # r.file_url
        fresh == {FixtureRecord(app_name, m, ref, <<>>) : m \in {"scr", "inst"}}
    IN  fresh \cup {Put(r, "last_update", 0) : r \in fresh}

\* The mappings of names to such records, the empty one among them.
Mappings ==
    {m \in UNION {[names -> UNION {RecordShapes(n) : n \in names}] : names \in SUBSET AppNames} :
        \A n \in DOMAIN m : m[n] \in RecordShapes(n)}

\* What the record file may hold when a process starts: nothing, what some
\* save_records wrote or began to write, or what something else put there.
RecordFiles ==
    {AbsentStore, TruncatedStore, UndecodableStore, UnreadableStore, ListStore(<<>>), ListStore(<<<<"a">>>>)}
        \cup {OkStore(m) : m \in Mappings}

-----------------------------------------------------------------------------
(* The state machine *)

\* What the most recent call was given (content: the bytes to install, or
\* the bytes the upgrade downloaded), and what it returned, raised, caught
\* and printed.  subprocess_runs counts the calls of subprocess.run it
\* made: no method of YankedManager makes one.
Call(op, app_name, method, content, answer, out) ==
    [op |-> op, app_name |-> app_name, method |-> method, content |-> content, answer |-> answer,
     ret |-> out.ret, raised |-> out.raised, caught |-> out.caught, msgs |-> out.msgs,
     subprocess_runs |-> 0]

\* Where a save_records that is followed through its steps is: between
\* open(records_file, 'w') and the end of the with block, `open` is true,
\* `before` is the record file as it was and `records` what is being saved.
NotSaving == [open |-> FALSE, before |-> AbsentStore, records |-> EmptyMap]

Init ==
    /\ files = EmptyMap
    /\ store = AbsentStore
    /\ now = 0
    /\ last = Call("init", <<>>, NoMethod, <<>>, "", Outcome(files, store, "None", "none", "none", <<>>))
    /\ saving = NotSaving

\* The times a call that follows one made at time t can be made at: time
\* does not run backwards.
Later(t) == {u \in {t, t + 1} : u <= MaxTime}

InstallApp(names) ==
    \E app_name \in names, ref \in References, content \in Contents, method \in Methods, t \in Later(now) :
        \E f \in {NoFault} \cup WriteFaults(content) \cup SaveFaults :
            \E out \in {install_app(files, store, t, app_name, ref.source_url, ref.file_url,
                                   content, method, f)} :
                /\ files' = out.files
                /\ store' = out.store
                /\ last' = Call("install", app_name, method, content, "", out)
                /\ now' = t
                /\ UNCHANGED saving

UpgradeApp(names) ==
    \E app_name \in names, fetched \in Fetches, t \in Later(now) :
        \E f \in {NoFault} \cup WriteFaults(fetched.body) \cup SaveFaults :
            \E out \in {upgrade_app(files, store, t, app_name, fetched, f)} :
                /\ files' = out.files
                /\ store' = out.store
                /\ last' = Call("upgrade", app_name, NoMethod, fetched.body, "", out)
                /\ now' = t
                /\ UNCHANGED saving

UninstallApp(names) ==
    \E app_name \in names, answer \in Answers, t \in Later(now) :
        \E f \in {NoFault, UnlinkFault} \cup SaveFaults :
            \E out \in {uninstall_app(files, store, app_name, answer, f)} :
                /\ files' = out.files
                /\ store' = out.store
                /\ last' = Call("uninstall", app_name, NoMethod, <<>>, answer, out)
                /\ now' = t
                /\ UNCHANGED saving

\* A test saves its fixture: self.manager.save_records(records).
SaveRecords(names) ==
    \E records \in Fixtures(names), f \in {NoFault} \cup SaveFaults, t \in Later(now) :
        \E s \in {save_records(store, records, f)} :
            /\ store' = s.store
            /\ last' = Call("save_records", <<>>, NoMethod, <<>>, "",
                            Outcome(files, s.store, "None", "none", s.caught, s.msgs))
            /\ now' = t
            /\ UNCHANGED saving
            /\ UNCHANGED files

ShowInfo(names) ==
    \E app_name \in names, t \in Later(now) :
        \E out \in {show_info(files, store, app_name)} :
            /\ files' = out.files
            /\ store' = out.store
            /\ last' = Call("info", app_name, NoMethod, <<>>, "", out)
            /\ now' = t
            /\ UNCHANGED saving

\* What is typed at the prompts of interactive_install: a repository URL, a
\* raw URL with a space before it, a URL of another site, a blank line and
\* then Exit; a file path; a name, a name that is refused and then a name,
\* a name that is refused and then nothing.  Nothing is typed at a prompt
\* that is not shown.
TypedUrls ==
    {<<<<"https://", "github.com", "/", "u", "/", "r">>>>,
     <<<<" ", "https://", RawHost, "/", "u", "/", "r", "/", "main", "/", "g.sh">>>>,
     <<<<"https://", "example.com">>>>,
     <<<<" ">>, <<"Exit">>>>}

TypedPaths == {<<>>, <<<<"f.sh">>>>}

TypedNames == {<<>>, <<<<"a">>>>, <<<<"a", "@">>, <<"a">>>>, <<<<"a", " ", "Z">>>>}

Typed ==
    [urls : TypedUrls, paths : TypedPaths, names : TypedNames, overwrite : Answers, proceed : Answers]

\* The same, by someone who confirms with y or types nothing.
TypedConfirming == {inp \in Typed : inp.overwrite \in {"y", ""} /\ inp.proceed \in {"y", ""}}

\* inp has something typed at the prompts shown and at no other.
TypedAtPromptsShown(inp, asked) ==
    /\ inp.paths = <<>> <=> "path" \notin asked
    /\ inp.names = <<>> <=> "name" \notin asked
    /\ "overwrite" \notin asked => inp.overwrite = ""
    /\ "proceed" \notin asked => inp.proceed = ""

NoFetch == [ok |-> FALSE, body |-> <<>>]

\* What the most recent call of interactive_install was given and did.
InteractiveCall(inp, d, fetched, out) ==
    [op |-> "interactive_install", inp |-> inp, app_name |-> d.app_name, asked |-> d.asked,
     proceeds |-> d.proceeds, fetched |-> fetched, content |-> fetched.body,
     ret |-> out.ret, raised |-> out.raised, caught |-> out.caught, msgs |-> out.msgs]

\* yanked, or yanked install.  The download and the system calls of
\* install_app happen only when the prompts are passed.
InteractiveInstall(typed, fetches, faults) ==
    \E inp \in typed, t \in Later(now) :
        \E d \in {Prompts(store, inp)} :
            /\ TypedAtPromptsShown(inp, d.asked)
            /\ \E fetched \in (IF d.proceeds THEN fetches ELSE {NoFetch}) :
                  \E f \in (IF d.proceeds /\ fetched.ok
                            THEN {g \in faults : g.at = "write" => g.part \in ProperPrefixes(fetched.body)}
                            ELSE {NoFault}) :
                    \E out \in {interactive_install(files, store, t, inp, fetched, f)} :
                        /\ files' = out.files
                        /\ store' = out.store
                        /\ last' = InteractiveCall(inp, d, fetched, out)
                        /\ now' = t
                        /\ UNCHANGED saving

\* The system calls that fail in install_app.
InstallFaults == {NoFault} \cup WriteFaults(Text) \cup SaveFaults

\* The system calls that fail where two packages are followed: the write of
\* the record file and, in uninstall_app, unlink.
SaveWriteFault == [at |-> "save_write", part |-> <<>>]

\* interactive_install for a GitHub reference, confirmed, and the download
\* done.
InstallAmong(names) ==
    \E app_name \in names, content \in Contents, t \in Later(now), f \in {NoFault, SaveWriteFault} :
        \E ref \in {r \in References : r.source_url # r.file_url} :
          \E out \in {install_app(files, store, t, app_name, ref.source_url, ref.file_url,
                                 content, NoMethod, f)} :
            /\ files' = out.files
            /\ store' = out.store
            /\ last' = Call("install", app_name, NoMethod, content, "", out)
            /\ now' = t
            /\ UNCHANGED saving

UpgradeAmong(names) ==
    \E app_name \in names, fetched \in Fetches, t \in Later(now), f \in {NoFault, SaveWriteFault} :
        \E out \in {upgrade_app(files, store, t, app_name, fetched, f)} :
            /\ files' = out.files
            /\ store' = out.store
            /\ last' = Call("upgrade", app_name, NoMethod, fetched.body, "", out)
            /\ now' = t
            /\ UNCHANGED saving

UninstallAmong(names) ==
    \E app_name \in names, answer \in {"y", "n"}, t \in Later(now) :
        \E f \in {NoFault, SaveWriteFault, UnlinkFault} :
            \E out \in {uninstall_app(files, store, app_name, answer, f)} :
                /\ files' = out.files
                /\ store' = out.store
                /\ last' = Call("uninstall", app_name, NoMethod, <<>>, answer, out)
                /\ now' = t
                /\ UNCHANGED saving

\* The calls SpecAll follows come one a second, until the clock shows
\* MaxCalls.
After(t) == {u \in {t + 1} : u <= MaxCalls}

\* interactive_install, for a GitHub reference, with no system call failing.
InstallAppUnfailing(names) ==
    \E app_name \in names, content \in Contents, t \in After(now) :
        \E ref \in {r \in References : r.source_url # r.file_url} :
          \E out \in {install_app(files, store, t, app_name, ref.source_url, ref.file_url,
                                 content, NoMethod, NoFault)} :
            /\ files' = out.files
            /\ store' = out.store
            /\ last' = Call("install", app_name, NoMethod, content, "", out)
            /\ now' = t
            /\ UNCHANGED saving

\* What one upgrade of the loop of upgrade_all meets: what its download
\* returns, and the system call that fails in it (open or chmod on the
\* executable, open or write on the record file).
UpgradeInputs ==
    {[fetched |-> fetched, f |-> f] :
        fetched \in Fetches, f \in {NoFault} \cup WriteFaults(<<>>) \cup SaveFaults}

\* What a call of upgrade_all did: the calls of upgrade_app it made, in
\* order, and the summary it printed.
CallAll(all) ==
    [op |-> "upgrade_all", app_name |-> <<>>, method |-> NoMethod, content |-> <<>>, answer |-> "",
     ret |-> "None", raised |-> all.raised, caught |-> "none", msgs |-> <<>>, subprocess_runs |-> 0,
     attempts |-> all.attempts, summary |-> all.summary]

\* The upgrades of one call of upgrade_all fall within the same second, t.
UpgradeAll(names) ==
    \E inputs \in [names -> UpgradeInputs], t \in After(now) :
        \E all \in {upgrade_all(files, store, t, inputs)} :
            /\ files' = all.files
            /\ store' = all.store
            /\ last' = CallAll(all)
            /\ now' = t
            /\ UNCHANGED saving

\* save_records, step by step (lines 76-80).  open(records_file, 'w')
\* either raises IOError, which is caught, or leaves the file empty.
OpenRecordsFile(names) ==
    \E records \in Fixtures(names), f \in {NoFault, [at |-> "save_open", part |-> <<>>]}, t \in Later(now) :
        /\ ~saving.open
        /\ IF f.at = "save_open"
           THEN \E s \in {save_records(store, records, f)} :
                    /\ store' = s.store
                    /\ saving' = NotSaving
                    /\ last' = Call("save_records", <<>>, NoMethod, <<>>, "",
                                    Outcome(files, s.store, "None", "none", s.caught, s.msgs))
           ELSE /\ store' = TruncatedStore
                /\ saving' = [open |-> TRUE, before |-> store, records |-> records]
                /\ last' = Call("open", <<>>, NoMethod, <<>>, "",
                                Outcome(files, TruncatedStore, "None", "none", "none", <<>>))
        /\ now' = t
        /\ UNCHANGED files

\* json.dump and the end of the with block: the file is written whole, or
\* the write raises IOError, which is caught, and the file stays cut short.
DumpRecords ==
    \E f \in {NoFault, [at |-> "save_write", part |-> <<>>]}, t \in Later(now) :
        /\ saving.open
        /\ \E s \in {save_records(store, saving.records, f)} :
               /\ store' = s.store
               /\ last' = Call("save_records", <<>>, NoMethod, <<>>, "",
                               Outcome(files, s.store, "None", "none", s.caught, s.msgs))
        /\ saving' = [saving EXCEPT !.open = FALSE]
        /\ now' = t
        /\ UNCHANGED files

\* The saving process is killed inside the with block.
KillSaving ==
    \E t \in Later(now) :
        /\ saving.open
        /\ saving' = [saving EXCEPT !.open = FALSE]
        /\ last' = Call("killed", <<>>, NoMethod, <<>>, "",
                        Outcome(files, store, "None", "none", "none", <<>>))
        /\ now' = t
        /\ UNCHANGED <<files, store>>

\* What a call of load_records returned and printed.
CallLoad(ld) ==
    [op |-> "load_records", app_name |-> <<>>, method |-> NoMethod, content |-> <<>>, answer |-> "",
     ret |-> "None", raised |-> ld.raised, caught |-> "none", msgs |-> ld.msgs, subprocess_runs |-> 0,
     loaded |-> ld.records, type |-> ld.type]

\* Another process reads the record file: load_records.
LoadRecords ==
    \E t \in Later(now) :
        /\ \E ld \in {load_records(store)} : last' = CallLoad(ld)
        /\ now' = t
        /\ UNCHANGED <<files, store, saving>>

\* What a call of save_records was given, and what it caught and printed.
CallSave(records, s) ==
    [op |-> "save_mapping", app_name |-> <<>>, method |-> NoMethod, content |-> <<>>, answer |-> "",
     ret |-> "None", raised |-> "none", caught |-> s.caught, msgs |-> s.msgs, subprocess_runs |-> 0,
     saved |-> records]

\* save_records(records), for a mapping of any size.
SaveMapping ==
    \E records \in Mappings, f \in {NoFault} \cup SaveFaults, t \in Later(now) :
        \E s \in {save_records(store, records, f)} :
            /\ store' = s.store
            /\ last' = CallSave(records, s)
            /\ now' = t
            /\ UNCHANGED <<files, saving>>

\* A process starts on whatever record file there is.
InitLoad ==
    /\ files = EmptyMap
    /\ store \in RecordFiles
    /\ now = 0
    /\ last = Call("init", <<>>, NoMethod, <<>>, "", Outcome(files, store, "None", "none", "none", <<>>))
    /\ saving = NotSaving

ValidateAppName ==
    \E name \in Strings(MaxName), t \in Later(now) :
        /\ last' = Call("validate", name, NoMethod, <<>>, "",
                        Outcome(files, store, IF validate_app_name(name) THEN "True" ELSE "False",
                                "none", "none", <<>>))
        /\ now' = t
        /\ UNCHANGED <<files, store, saving>>

\* A URL and a file path, before anything is done with them.
UrlGiven(url, file_path) ==
    [op |-> "given", url |-> url, file_path |-> file_path, result |-> Resolved(<<>>, <<>>, FALSE, "none")]

InitUrl ==
    /\ files = EmptyMap
    /\ store = AbsentStore
    /\ now = 0
    /\ last \in {UrlGiven(url, file_path) : url \in Urls, file_path \in FilePaths}
    /\ saving = NotSaving

ParseGithubUrl ==
    /\ last.op = "given"
    /\ last' = [last EXCEPT !.op = "parse_github_url", !.result = parse_github_url(last.url)]
    /\ UNCHANGED <<files, store, now, saving>>

GetRawUrl ==
    /\ last.op = "given"
    /\ last' = [last EXCEPT !.op = "get_raw_url", !.result = get_raw_url(last.url, last.file_path)]
    /\ UNCHANGED <<files, store, now, saving>>

Next == InstallApp(OnePackage) \/ UpgradeApp(OnePackage) \/ UninstallApp(OnePackage)

\* The lifecycle of one package, every call meeting every fault.
Spec == Init /\ [][Next]_vars

NextFixture == Next \/ SaveRecords(OnePackage)

\* The same, over record files the tests wrote through save_records.
SpecFixture == Init /\ [][NextFixture]_vars

NextInfo == InstallApp(OnePackage) \/ SaveRecords(OnePackage) \/ ShowInfo(OnePackage)

\* Looking at what installs and the tests' fixtures left.
SpecInfo == Init /\ [][NextInfo]_vars

NextAll == InstallAppUnfailing(AppNames) \/ UpgradeAll(AppNames)

\* Two packages, installed and then upgraded together.
SpecAll == Init /\ [][NextAll]_vars

NextSaving == OpenRecordsFile(AppNames) \/ DumpRecords \/ KillSaving \/ LoadRecords

\* One process saving the record file, another reading it.
SpecSaving == Init /\ [][NextSaving]_vars

NextLoad == SaveMapping \/ LoadRecords

\* Saving and loading the record file, whatever it held at the start.
SpecLoad == InitLoad /\ [][NextLoad]_vars

NextValidate == ValidateAppName

\* validate_app_name, on every string of at most MaxName characters.
SpecValidate == Init /\ [][NextValidate]_vars

NextLookup == Next \/ ShowInfo(OnePackage)

SpecLookup == Init /\ [][NextLookup]_vars

NextInteractive ==
    InteractiveInstall(Typed, Fetches \ {NoFetch}, {NoFault}) \/ UninstallApp(OnePackage)

SpecInteractive == Init /\ [][NextInteractive]_vars

NextDownload == InteractiveInstall(TypedConfirming, Fetches, InstallFaults)

SpecDownload == Init /\ [][NextDownload]_vars

NextAmong == InstallAmong(AppNames) \/ UpgradeAmong(AppNames) \/ UninstallAmong(AppNames)

SpecAmong == Init /\ [][NextAmong]_vars

NextUrl == ParseGithubUrl \/ GetRawUrl

\* parse_github_url and get_raw_url, on every URL of Urls.
SpecUrl == InitUrl /\ [][NextUrl]_vars

-----------------------------------------------------------------------------
(* Properties *)

\* The records a call finds: what load_records returns.
Records == load_records(store).records

\* The exceptions the environment causes: the network, the file system.
EnvFaults ==
    {"Download failed", "OSError: open", "OSError: write", "OSError: chmod", "OSError: unlink",
     "IOError: save_open", "IOError: save_write"}

Printed(call, line) == \E i \in DOMAIN call.msgs : call.msgs[i] = line

\* C1: in every state reached by install, upgrade and uninstall calls,
\* failing ones included, the file_hash of each record is the fingerprint of
\* the content last written for the package: of the bytes at file_path, which
\* only these calls write.
C1_HashIsFingerprintOfFile ==
    \A n \in DOMAIN Records :
        LET r == Records[n]
        IN  (Has(r, "file_path") /\ Exists(files, r.file_path))
                => r.file_hash = calculate_hash(files[r.file_path].content)

\* C2: an upgrade of an installed package that fails on the download or on
\* writing the file (open, write or chmod) reports the failure, returns
\* False, and leaves the record file as it was.
C2_FailedUpgradeKeepsRecord ==
    [][(/\ last'.op = "upgrade"
        /\ Has(Records, last'.app_name)
        /\ last'.caught \in {"Download failed", "OSError: open", "OSError: write", "OSError: chmod"})
       => (/\ store' = store
           /\ last'.ret = "False"
           /\ last'.raised = "none"
           /\ Printed(last', "error: Failed to upgrade: " \o last'.caught)
           /\ ~Printed(last', "success: updated successfully"))]_vars

\* An upgrade of an installed package has just failed part-way through
\* writing the file.
C2_Witness ==
    /\ last.op = "upgrade"
    /\ last.caught = "OSError: write"
    /\ Has(Records, last.app_name)
    /\ Exists(files, Records[last.app_name].file_path)
    /\ files[Records[last.app_name].file_path].content # last.content

\* C3: an upgrade of an installed package whose download has the stored
\* file_hash returns False, and writes neither the file nor the record file.
C3_UpToDateUpgradeChangesNothing ==
    [][(/\ last'.op = "upgrade"
        /\ Has(Records, last'.app_name)
        /\ last'.caught # "Download failed"
        /\ calculate_hash(last'.content) = Records[last'.app_name].file_hash)
       => (/\ last'.ret = "False"
           /\ store' = store
           /\ files' = files)]_vars

\* An upgrade has just found an installed package, its file in place, up to
\* date.
C3_Witness ==
    /\ last.op = "upgrade"
    /\ last.ret = "False"
    /\ last.caught = "none"
    /\ Has(Records, last.app_name)
    /\ calculate_hash(last.content) = Records[last.app_name].file_hash
    /\ Has(Records[last.app_name], "file_path")
    /\ Exists(files, Records[last.app_name].file_path)

\* C4: an upgrade of a package installed as a file, when the download
\* differs from what is stored and no system call fails, returns True, leaves
\* the downloaded bytes in the file, and changes the record in file_hash and
\* last_update alone.
C4_ChangedUpgrade ==
    [][(/\ last'.op = "upgrade"
        /\ Has(Records, last'.app_name)
        /\ Has(Records[last'.app_name], "file_path")
        /\ last'.caught = "none"
        /\ calculate_hash(last'.content) # Records[last'.app_name].file_hash)
       => LET n == last'.app_name
              r == Records[n]
          IN  /\ last'.ret = "True"
              /\ Exists(files', r.file_path)
              /\ files'[r.file_path].content = last'.content
              /\ S_IEXEC \in files'[r.file_path].mode
              /\ Records' = Put(Records, n,
                                Put(Put(r, "file_hash", calculate_hash(last'.content)), "last_update", now'))
              /\ Records'[n].source_url = r.source_url
              /\ Records'[n].file_url = r.file_url
              /\ Records'[n].install_date = r.install_date]_vars

\* An upgrade has just replaced the content of a package installed earlier.
C4_Witness ==
    /\ last.op = "upgrade"
    /\ last.ret = "True"
    /\ last.caught = "none"
    /\ Has(Records, last.app_name)
    /\ Has(Records[last.app_name], "last_update")
    /\ Records[last.app_name].install_date < Records[last.app_name].last_update
    /\ Records[last.app_name].file_hash = calculate_hash(last.content)

\* C5: an upgrade of a package whose record has no file_path, when the
\* download differs from what is stored and the environment fails nothing,
\* returns True, writes no file, and sets file_hash and last_update in the
\* record.
C5_InstallerUpgradeSucceeds ==
    [][(/\ last'.op = "upgrade"
        /\ Has(Records, last'.app_name)
        /\ ~Has(Records[last'.app_name], "file_path")
        /\ last'.caught \notin EnvFaults
        /\ calculate_hash(last'.content) # Records[last'.app_name].file_hash)
       => LET n == last'.app_name
          IN  /\ last'.ret = "True"
              /\ files' = files
              /\ Records' = Put(Records, n,
                                Put(Put(Records[n], "file_hash", calculate_hash(last'.content)),
                                    "last_update", now'))]_vars

\* C6: every record has a method, "scr" or "inst"; a "scr" record has a
\* file_path and an "inst" record has none; and an install with method "inst"
\* that meets no fault leaves a record with a file_hash and no file_path.
C6_RecordShape ==
    /\ \A n \in DOMAIN Records :
           LET r == Records[n]
           IN  /\ Has(r, "method")
               /\ r.method \in {"scr", "inst"}
               /\ (r.method = "scr" => Has(r, "file_path"))
               /\ (r.method = "inst" => ~Has(r, "file_path"))
    /\ (last.op = "install" /\ last.method = "inst" /\ last.caught \notin EnvFaults)
           => /\ Has(Records, last.app_name)
              /\ Has(Records[last.app_name], "file_hash")
              /\ ~Has(Records[last.app_name], "file_path")

\* C7: an install as a file that ends without an error leaves the content
\* in install_dir/name, executable and with its other mode bits as they were,
\* and a record with method "scr", the two URLs given,
\* file_path install_dir/name and the SHA-256 of the content.
C7_DirectFileInstall ==
    [][(/\ last'.op = "install"
        /\ last'.method \in {NoMethod, "scr"}
        /\ last'.raised = "none"
        /\ last'.caught = "none")
       => LET n == last'.app_name
              path == PathJoin(install_dir, n)
          IN  /\ Exists(files', path)
              /\ files'[path].content = last'.content
              /\ files'[path].mode = (IF Exists(files, path) THEN files[path].mode ELSE CreateMode)
                                         \cup {S_IEXEC}
              /\ Has(Records', n)
              /\ Records'[n].file_path = path
              /\ Records'[n].file_hash = calculate_hash(last'.content)
              /\ \E ref \in References :
                     /\ Records'[n].source_url = ref.source_url
                     /\ Records'[n].file_url = ref.file_url
              /\ Has(Records'[n], "method")
              /\ Records'[n].method = "scr"]_vars

\* C8: an install with method "inst" runs the downloaded installer once as
\* a subprocess, and leaves no file behind: no temporary one, and none at
\* install_dir/name.
C8_InstallerRunsOnce ==
    [][(last'.op = "install" /\ last'.method = "inst")
       => (last'.subprocess_runs = 1 /\ files' = files)]_vars

\* C9: a confirmed uninstall of an installed package that meets no fault
\* ends without an exception and leaves the name out of the records; it
\* removes the file of a record with a file_path, and no file otherwise.
C9_ConfirmedUninstall ==
    [][(/\ last'.op = "uninstall"
        /\ Has(Records, last'.app_name)
        /\ Confirmed(last'.answer)
        /\ last'.caught \notin EnvFaults)
       => LET n == last'.app_name
              r == Records[n]
          IN  /\ last'.raised = "none"
              /\ ~Has(Records', n)
              /\ IF Has(r, "file_path")
                 THEN files' = Del(files, r.file_path)
                 ELSE files' = files]_vars

\* C10: a confirmed uninstall whose removal of an existing file fails
\* reports the failure, not a success, and leaves the record file and the
\* file as they were: the package is still installed.
C10_FailedRemovalKeepsRecord ==
    [][(/\ last'.op = "uninstall"
        /\ last'.caught = "OSError: unlink")
       => (/\ Confirmed(last'.answer)
           /\ store' = store
           /\ files' = files
           /\ Has(Records', last'.app_name)
           /\ Printed(last', "error: Failed to remove file")
           /\ ~Printed(last', "success: uninstalled successfully"))]_vars

\* An uninstall has just failed to remove the file of an installed package.
C10_Witness ==
    /\ last.op = "uninstall"
    /\ last.caught = "OSError: unlink"
    /\ Has(Records, last.app_name)
    /\ Exists(files, Records[last.app_name].file_path)

\* C11: a confirmed uninstall of a package whose record has a file_path at
\* which no file exists, the record save not failing, raises nothing, prints
\* a warning and no error, touches no file, and leaves the name out of the
\* records.
C11_MissingFileUninstall ==
    [][(/\ last'.op = "uninstall"
        /\ Has(Records, last'.app_name)
        /\ Has(Records[last'.app_name], "file_path")
        /\ ~Exists(files, Records[last'.app_name].file_path)
        /\ Confirmed(last'.answer)
        /\ last'.caught \notin {"IOError: save_open", "IOError: save_write"})
       => (/\ last'.raised = "none"
           /\ last'.caught = "none"
           /\ Printed(last', "warning: already missing")
           /\ ~Printed(last', "error: Failed to remove file")
           /\ Printed(last', "success: uninstalled successfully")
           /\ files' = files
           /\ ~Has(Records', last'.app_name)
           /\ Records' = Del(Records, last'.app_name))]_vars

\* A confirmed uninstall has just removed the record of a package whose
\* file was already gone.
C11_Witness ==
    /\ last.op = "uninstall"
    /\ Confirmed(last.answer)
    /\ Printed(last, "warning: already missing")
    /\ last.caught = "none"
    /\ ~Has(Records, last.app_name)
    /\ store.kind = "ok"

\* C12: info on an installed package whose record has no file_path raises
\* nothing, prints the package's info with its method, a custom installer,
\* and changes neither a file nor the record file.
C12_InfoOnInstallerRecord ==
    [][(/\ last'.op = "info"
        /\ Has(Records, last'.app_name)
        /\ ~Has(Records[last'.app_name], "file_path"))
       => (/\ last'.raised = "none"
           /\ Printed(last', "print: Package Info")
           /\ Printed(last', "print: Method: inst (Custom installer)")
           /\ files' = files
           /\ store' = store)]_vars

\* The names upgrade_all called upgrade_app for, in the order of the calls.
Attempted(call) == [i \in DOMAIN call.attempts |-> call.attempts[i].app_name]

\* C13: upgrade_all calls upgrade_app once for every name in the records at
\* its start and for no other, in ascending order of the names, whatever the
\* calls before it returned; no exception leaves it.
C13_UpgradeAllAttemptsEveryName ==
    [][last'.op = "upgrade_all"
       => LET names == Attempted(last')
          IN  /\ last'.raised = "none"
              /\ Len(names) = Cardinality(DOMAIN Records)
              /\ {names[i] : i \in DOMAIN names} = DOMAIN Records
              /\ \A i, j \in DOMAIN names : i < j => StrLess(names[i], names[j])]_vars

\* upgrade_all has just upgraded the second package after the upgrade of the
\* first one failed.
C13_Witness ==
    /\ last.op = "upgrade_all"
    /\ Len(last.attempts) = 2
    /\ last.attempts[1].app_name = <<"a">>
    /\ last.attempts[1].ret = "False"
    /\ last.attempts[1].caught \in {"Download failed", "OSError: open"}
    /\ last.attempts[2].app_name = <<"b", "_", "1">>
    /\ last.attempts[2].ret = "True"

\* An upgrade that ended in an exception, caught and reported.
Failed(attempt) == attempt.ret = "False" /\ attempt.caught # "none"

Updated(attempt) == attempt.ret = "True"

FoundUpToDate(attempt) == attempt.up_to_date

\* The calls of upgrade_app made by upgrade_all that ended in the given way.
Count(call, ending) ==
    Cardinality({i \in DOMAIN call.attempts :
                    CASE ending = "updated" -> Updated(call.attempts[i])
                      [] ending = "up to date" -> FoundUpToDate(call.attempts[i])
                      [] ending = "failed" -> Failed(call.attempts[i])})

\* C14: the summary of upgrade_all counts as updated the upgrades that
\* returned True, as up to date those that found the stored hash, and as
\* failed those that ended in an error; no failed upgrade is counted as up to
\* date, and the three counts add up to the number of installed names.
C14_SummaryPartitionsNames ==
    [][(last'.op = "upgrade_all" /\ Records # EmptyMap)
       => (/\ last'.summary.updated = Count(last', "updated")
           /\ last'.summary.up_to_date = Count(last', "up to date")
           /\ last'.summary.failed = Count(last', "failed")
           /\ last'.summary.updated + last'.summary.up_to_date + last'.summary.failed
                  = Cardinality(DOMAIN Records))]_vars

\* C15: when a save_records has ended, by returning, by a caught IOError
\* or by the process being killed, the record file holds a whole mapping: the
\* one it held before the save, or the one being saved.
C15_SaveIsCrashSafe ==
    [][(saving.open /\ ~saving'.open)
       => (/\ store'.kind # "truncated"
           /\ store' \in {saving.before, OkStore(saving.records)}
           /\ load_records(store').records
                  \in {load_records(saving.before).records, saving.records})]_vars

\* C16: a load_records made while another process is between the open and
\* the end of its save_records prints no error and returns the mapping the
\* file held before the save, or the mapping being saved.
C16_ReaderSeesWholeMapping ==
    [][(last'.op = "load_records" /\ saving.open)
       => (/\ last'.msgs = <<>>
           /\ last'.loaded \in {load_records(saving.before).records, saving.records})]_vars

\* The IOErrors of save_records.
SaveFailures == {"IOError: save_open", "IOError: save_write"}

\* C17: an install, upgrade or uninstall whose save of the record file met
\* an IOError does not end as a success: it prints no success line, and an
\* upgrade does not return True.
C17_FailedSaveIsNotSuccess ==
    [][(/\ last'.op \in {"install", "upgrade", "uninstall"}
        /\ last'.caught \in SaveFailures)
       => (/\ ~Printed(last', "success: installed successfully")
           /\ ~Printed(last', "success: updated successfully")
           /\ ~Printed(last', "success: uninstalled successfully")
           /\ last'.ret # "True")]_vars

\* C18: load_records raises nothing and returns a dict; it returns {} and
\* prints nothing when there is no record file, and returns {} and prints an
\* error when the file is there and does not hold a JSON object: text that
\* does not parse, bytes that do not decode, a file that cannot be read, a
\* JSON value of another type.
C18_LoadNeverFails ==
    [][last'.op = "load_records"
       => (/\ last'.raised = "none"
           /\ last'.type = "dict"
           /\ store.kind = "absent" => (last'.loaded = EmptyMap /\ last'.msgs = <<>>)
           /\ store.kind \notin {"absent", "ok"}
                  => (last'.loaded = EmptyMap /\ Printed(last', "error: Error reading records")))]_vars

\* C19: a load_records that follows a save_records of a mapping with at
\* least one record, the save having met no IOError, returns that mapping.
C19_SaveLoadRoundTrip ==
    [][(/\ last.op = "save_mapping"
        /\ last.caught = "none"
        /\ last.saved # EmptyMap
        /\ last'.op = "load_records")
       => (/\ last'.raised = "none"
           /\ last'.msgs = <<>>
           /\ last'.type = "dict"
           /\ last'.loaded = last.saved)]_vars

\* A mapping with a record of each method, one of them stamped by an
\* upgrade, has just been loaded after it was saved over another one.
C19_Witness ==
    /\ last.op = "load_records"
    /\ last.type = "dict"
    /\ DOMAIN last.loaded = AppNames
    /\ \E n, m \in AppNames :
           /\ Has(last.loaded[n], "file_path")
           /\ ~Has(last.loaded[m], "file_path")
           /\ Has(last.loaded[n], "last_update")
           /\ ~Has(last.loaded[m], "last_update")
    /\ store = OkStore(last.loaded)
    /\ now = 1

\* C20: validate_app_name returns True for the strings of one or more
\* characters that are all ASCII letters, digits, hyphens or underscores, and
\* False for every other string: the empty one, and any with a space, a
\* newline (first or last) or another character in it.
C20_ValidateExactly ==
    [][last'.op = "validate"
       => LET name == last'.app_name
          IN  last'.ret = (IF name # <<>> /\ \A i \in DOMAIN name : InClass(name[i])
                           THEN "True" ELSE "False")]_vars

\* repo with a ".git" at its end taken off, and no other.
WithoutGitSuffix(repo) ==
    IF repo # <<>> /\ repo[Len(repo)] = ".git" THEN SubSeq(repo, 1, Len(repo) - 1) ELSE repo

\* C21: for a URL http(s)://github.com/<owner>/<repo>[/...] with no space
\* in it and a file path p, get_raw_url returns
\* https://raw.githubusercontent.com/<owner>/<repo'>/main/<p>, repo' being
\* repo without a ".git" at its end and otherwise as it is.
C21_RawUrlStripsGitSuffix ==
    [][(last'.op = "get_raw_url" /\ RepoMatch(last.url).matched /\ ~Contains(last.url, " "))
       => LET m == RepoMatch(last.url)
          IN  /\ last'.result.raised = "none"
              /\ last'.result.raw_url
                     = <<"https://", RawHost, "/">> \o m.user \o <<"/">> \o WithoutGitSuffix(m.repo)
                           \o <<"/", "main", "/">> \o last.file_path]_vars

\* C22, as claimed: parse_github_url returns what it was given, as it was
\* given, as source URL and as download URL, whenever that has the raw
\* host in it.
C22_RawUrlUnchanged ==
    [][(last'.op = "parse_github_url" /\ Contains(last.url, RawHost))
       => (/\ last'.result.raised = "none"
           /\ last'.result.source_url = last.url
           /\ last'.result.raw_url = last.url)]_vars

\* C22, amended: parse_github_url returns what it was given, without the
\* spaces around it and otherwise unchanged, as source URL and as download
\* URL, whenever that has the raw host in it; it asks for no file path.
C22_RawUrlStripped ==
    [][(last'.op = "parse_github_url" /\ Contains(last.url, RawHost))
       => (/\ last'.result.raised = "none"
           /\ ~last'.result.needs_path
           /\ last'.result.source_url = Strip(last.url)
           /\ last'.result.raw_url = Strip(last.url)
           /\ (~Contains(last.url, " ") => last'.result.raw_url = last.url))]_vars

\* A raw URL typed with spaces around it has just been resolved.
C22_Witness ==
    /\ last.op = "parse_github_url"
    /\ Contains(last.url, RawHost)
    /\ last.url[1] = " "
    /\ last.url[Len(last.url)] = " "
    /\ last.result.raw_url = SubSeq(last.url, 2, Len(last.url) - 1)
    /\ last.result.source_url = last.result.raw_url

\* The repository-page pattern: http or https, github.com, and a path that
\* begins with two segments that are not empty.
IsRepoPage(url) ==
    \E i, j \in DOMAIN url :
        /\ 4 < i
        /\ i < j
        /\ url[1] \in {"https://", "http://"}
        /\ url[2] = "github.com"
        /\ url[3] = "/"
        /\ url[i] = "/"
        /\ \A k \in (4..j) \ {i} : url[k] # "/"

\* What C23 says of a URL, url being the URL it is said of and result what
\* parse_github_url returned.
ResolvesAsClaimed(url, result) ==
    /\ (IsRepoPage(url) /\ ~Contains(url, RawHost))
           => (/\ result.raised = "none"
               /\ result.source_url = url
               /\ result.needs_path
               /\ \A p \in FilePaths : get_raw_url(url, p).raised = "none")
    /\ (~IsRepoPage(url) /\ ~Contains(url, RawHost)) => result.raised = "ValueError"

\* C23, as claimed: of the URL as it was given.
C23_ResolveAsGiven ==
    [][last'.op = "parse_github_url" => ResolvesAsClaimed(last.url, last'.result)]_vars

\* C23, amended: of the URL without the spaces around it.  It comes back,
\* with a file path still needed, when it matches the repository-page
\* pattern and has no raw host in it, and get_raw_url then accepts it;
\* parse_github_url raises ValueError when it matches neither.
C23_ResolveStripped ==
    [][last'.op = "parse_github_url" => ResolvesAsClaimed(Strip(last.url), last'.result)]_vars

\* A repository URL typed with a space before it has just been resolved,
\* and so has a github.com URL with an owner and no repository.
C23_Witness ==
    /\ last.op = "parse_github_url"
    /\ \/ /\ last.url[1] = " "
          /\ last.result.needs_path
          /\ last.result.source_url = Tail(last.url)
          /\ IsRepoPage(last.result.source_url)
       \/ /\ last.url = <<"https://", "github.com", "/", "u">>
          /\ last.result.raised = "ValueError"

\* source_url, file_url and install_date of the record r.
Origin(r) == [source_url |-> r.source_url, file_url |-> r.file_url, install_date |-> r.install_date]

InstallFailures == {"Download failed", "OSError: open", "OSError: write", "OSError: chmod"}

\* C25: an interactive_install that changes the record file has written
\* the whole download to the executable and made it executable; one whose
\* download, write or chmod fails prints that the installation failed,
\* reports no success and leaves the record file as it was.
C25_RecordSavedAfterFile ==
    [][last'.op = "interactive_install"
       => LET app_path == PathJoin(install_dir, last'.app_name)
          IN  /\ store' # store
                    => (/\ last'.proceeds
                        /\ Exists(files', app_path)
                        /\ files'[app_path].content = last'.content
                        /\ S_IEXEC \in files'[app_path].mode)
              /\ last'.caught \in InstallFailures
                    => (/\ store' = store
                        /\ last'.raised = "none"
                        /\ Printed(last', "error: Installation failed: " \o last'.caught)
                        /\ ~Printed(last', "success: installed successfully"))]_vars

\* An install over an installed package has just failed at chmod, with the
\* download already in the file and the record still that of the earlier
\* install.
C25_Witness ==
    /\ last.op = "interactive_install"
    /\ last.caught = "OSError: chmod"
    /\ "overwrite" \in last.asked
    /\ Has(Records, last.app_name)
    /\ Exists(files, PathJoin(install_dir, last.app_name))
    /\ files[PathJoin(install_dir, last.app_name)].content = last.content
    /\ Records[last.app_name].file_hash # calculate_hash(last.content)

\* The calls that look a name up in the records and go on only if it is
\* there.
Lookups == {"upgrade", "uninstall", "info"}

\* C26: upgrade_app, uninstall_app and show_info of a name that is not in
\* the records print the error that it is not installed, once and as their
\* last line, raise nothing, download nothing and leave the files and the
\* record file as they were; upgrade_app returns False.  The line is the
\* only one printed, unless the record file cannot be read or parsed, when
\* the error load_records prints for that comes before it.
C26_MissingNameChangesNothing ==
    [][(last'.op \in Lookups /\ ~Has(Records, last'.app_name))
       => (/\ last'.msgs = (IF store.kind \in {"truncated", "unreadable"}
                            THEN <<"error: Error reading records", "error: not installed">>
                            ELSE <<"error: not installed">>)
           /\ last'.raised = "none"
           /\ last'.caught = "none"
           /\ ~Printed(last', "status: Downloading")
           /\ files' = files
           /\ store' = store
           /\ (last'.op = "upgrade" => last'.ret = "False"))]_vars

\* A package has been installed and uninstalled, and a call has just looked
\* its name up in vain: its file is gone, the record file is there and has
\* no record in it.
C26_Witness ==
    /\ last.op \in Lookups
    /\ store.kind = "ok"
    /\ Records = EmptyMap
    /\ last.msgs = <<"error: not installed">>
    /\ last.answer \in {"y", ""}

\* The names typed at "Enter the name" that are refused: what
\* [a-zA-Z0-9_-]+ does not match from end to end.
Refused(names) ==
    {i \in DOMAIN names :
        LET name == Strip(names[i]) IN name = <<>> \/ \E k \in DOMAIN name : ~InClass(name[k])}

\* C27: every key of the records is a name validate_app_name accepts, made
\* of letters, digits, hyphens and underscores alone; an
\* interactive_install given a name that is not prints that it is refused
\* and installs nothing under it, and changes neither the files nor the
\* record file unless a name that is accepted is typed after it.
C27_KeysAreValidNames ==
    [][/\ \A n \in DOMAIN Records' : validate_app_name(n) /\ \A k \in DOMAIN n : InClass(n[k])
       /\ (last'.op = "interactive_install" /\ "name" \in last'.asked /\ 1 \in Refused(last'.inp.names))
              => (/\ Printed(last', "error: App name must contain only")
                  /\ last'.app_name # Strip(last'.inp.names[1])
                  /\ ~Exists(files', PathJoin(install_dir, Strip(last'.inp.names[1])))
                  /\ Refused(last'.inp.names) = DOMAIN last'.inp.names
                         => (files' = files /\ store' = store /\ ~last'.proceeds))]_vars

\* A name with an @ in it has just been refused, and the name typed after
\* it installed.
C27_Witness ==
    /\ last.op = "interactive_install"
    /\ last.inp.names = <<<<"a", "@">>, <<"a">>>>
    /\ Printed(last, "error: App name must contain only")
    /\ Printed(last, "success: installed successfully")
    /\ DOMAIN Records = {<<"a">>}

\* The (y/N) prompt the call showed last was answered with something other
\* than y or yes, in whatever case.
Declined(call, records) ==
    \/ /\ call.op = "interactive_install"
       /\ \/ "proceed" \in call.asked /\ ~Confirmed(call.inp.proceed)
          \/ "overwrite" \in call.asked /\ "proceed" \notin call.asked /\ ~Confirmed(call.inp.overwrite)
    \/ /\ call.op = "uninstall"
       /\ Has(records, call.app_name)
       /\ ~Confirmed(call.answer)

\* C29: an interactive_install whose "Overwrite?" or "Proceed with
\* installation?" prompt is not answered with y or yes, and an
\* uninstall_app of an installed name whose prompt is not, download
\* nothing, leave the files and the record file as they were, and print
\* that they are cancelled.
C29_DeclinedChangesNothing ==
    [][Declined(last', Records)
       => (/\ files' = files
           /\ store' = store
           /\ ~Printed(last', "status: Downloading")
           /\ last'.raised = "none"
           /\ last'.caught = "none"
           /\ last'.msgs[Len(last'.msgs)]
                  = (IF last'.op = "uninstall" THEN "warning: Uninstallation cancelled"
                                               ELSE "warning: Installation cancelled"))]_vars

\* Over an installed package: "Overwrite?" has just been answered with n,
\* or with y and "Proceed with installation?" with nothing at all.
C29_Witness ==
    /\ last.op = "interactive_install"
    /\ Has(Records, <<"a">>)
    /\ "overwrite" \in last.asked
    /\ \/ last.inp.overwrite = "n" /\ "proceed" \notin last.asked
       \/ last.inp.overwrite = "Yes" /\ last.inp.proceed = ""
    /\ Exists(files, PathJoin(install_dir, <<"a">>))

\* The members of the record file that have the key n.
MembersOf(st, n) == {i \in DOMAIN st.text : st.text[i][1] = n}

\* C28: install_app, upgrade_app and uninstall_app of a name leave the
\* record and the file of every other name as they were, and an
\* install_app over a name that is installed leaves the record file with
\* one record of that name.
C28_OtherNamesUntouched ==
    [][last'.op \in {"install", "upgrade", "uninstall"}
       => \A before \in {Records}, after \in {Records'} :
              /\ \A other \in AppNames \ {last'.app_name} :
                     /\ Has(before, other) <=> Has(after, other)
                     /\ Has(before, other) => after[other] = before[other]
                     /\ Exists(files, PathJoin(install_dir, other))
                            <=> Exists(files', PathJoin(install_dir, other))
                     /\ Exists(files, PathJoin(install_dir, other))
                            => files'[PathJoin(install_dir, other)] = files[PathJoin(install_dir, other)]
              /\ (last'.op = "install" /\ Has(before, last'.app_name))
                     => Cardinality(MembersOf(store', last'.app_name)) = 1]_vars

====
